---- MODULE Spec2Model ----
(***************************************************************************)
(* Model of mesop/editor/editor_codemod.py: the three libcst codemods      *)
(* NewComponentCodemod, DeleteComponentCodemod and UpdateCallsiteCodemod,  *)
(* applied to a parsed module.                                             *)
(*                                                                         *)
(* A tree is a record with a "kind" field (the libcst node class) and the  *)
(* node's own fields.  The position metadata of a node is its start line:  *)
(* statements are laid out one per line, a with-statement's header on its  *)
(* own line followed by the lines of its indented body, and every          *)
(* expression of a statement starts on the statement's line.               *)
(*                                                                         *)
(* A Python call either returns a value or raises: both are a record       *)
(* [raised, value], built by Return and Raise.                             *)
(***************************************************************************)
EXTENDS Integers, Sequences, FiniteSets, TLC

VARIABLES module, command, input, result, history

vars == <<module, command, input, result, history>>

-----------------------------------------------------------------------------
(* Bounds of the model. *)

\* Target lines of a request range over 0..MaxLine (line 0 never exists).
MaxLine == 3

\* list_index segments range over 0..MaxIndex.
MaxIndex == 1

\* Argument paths have 1..MaxPathLen segments.
MaxPathLen == 3

-----------------------------------------------------------------------------
(* Python values. *)

Return(v) == [raised |-> FALSE, value |-> v]
Raise(e) == [raised |-> TRUE, value |-> e]

\* The first exception raised while evaluating rs[1], rs[2], ... in order.
FirstRaised(rs) ==
  rs[CHOOSE i \in 1..Len(rs) : rs[i].raised /\ \A j \in 1..(i - 1) : ~rs[j].raised]

AnyRaised(rs) == \E i \in 1..Len(rs) : rs[i].raised

RECURSIVE Flatten(_)
Flatten(seqs) ==
  IF seqs = <<>> THEN <<>> ELSE Head(seqs) \o Flatten(Tail(seqs))

\* The values of the calls rs in order, or the first exception raised among them.
Gather(rs) ==
  IF AnyRaised(rs) THEN FirstRaised(rs) ELSE Return([i \in 1..Len(rs) |-> rs[i].value])

\* The values of the calls rs, each a sequence, as one sequence, or the first
\* exception raised among them.
Collect(rs) ==
  IF AnyRaised(rs) THEN FirstRaised(rs)
  ELSE Return(Flatten([i \in 1..Len(rs) |-> rs[i].value]))

\* <<v>> for the value v of the call r, or the exception it raised.
Singleton(r) ==
  IF r.raised THEN r ELSE Return(<<r.value>>)

RECURSIVE Join(_)
Join(chars) ==
  IF chars = <<>> THEN "" ELSE Head(chars) \o Join(Tail(chars))

\* str(float) for the non-negative doubles h/2 the model draws.
StrDouble(h) == ToString(h \div 2) \o "." \o (IF h % 2 = 0 THEN "0" ELSE "5")

\* str(bool)
StrBool(b) == IF b THEN "True" ELSE "False"

-----------------------------------------------------------------------------
(* libcst nodes. *)

None == [kind |-> "None"]
Str(value) == [kind |-> "str", value |-> value]
Name(value) == [kind |-> "Name", value |-> value]
Attribute(value, attr) == [kind |-> "Attribute", value |-> value, attr |-> attr]
Call(func, args) == [kind |-> "Call", func |-> func, args |-> args]
Arg(keyword, value) == [kind |-> "Arg", keyword |-> keyword, value |-> value]
List(elements) == [kind |-> "List", elements |-> elements]
Element(value) == [kind |-> "Element", value |-> value]
SimpleString(value) == [kind |-> "SimpleString", value |-> value]
Float(value) == [kind |-> "Float", value |-> value]
Integer(value) == [kind |-> "Integer", value |-> value]
Expr(value) == [kind |-> "Expr", value |-> value]
Pass == [kind |-> "Pass"]
SimpleStatementLine(body) == [kind |-> "SimpleStatementLine", body |-> body]
IndentedBlock(body) == [kind |-> "IndentedBlock", body |-> body]
WithItem(item) == [kind |-> "WithItem", item |-> item]
With(items, body) == [kind |-> "With", items |-> items, body |-> body]

\* cst.parse_statement(f"me.{component_name}()")
parse_statement(component_name) ==
  SimpleStatementLine(<<Expr(Call(Attribute(Name("me"), Name(component_name)), <<>>))>>)

-----------------------------------------------------------------------------
(* Protocol buffer messages (mesop.protos.ui_pb2): a oneof is the name of  *)
(* the field that is set ("" when none is), every field has its default.   *)

HasField(msg, field) == msg.has = field

CodeValue(has, string_value, double_value, int_value, bool_value, struct_name) ==
  [has |-> has, string_value |-> string_value, double_value |-> double_value,
   int_value |-> int_value, bool_value |-> bool_value, struct_name |-> struct_name]

NoCodeValue == CodeValue("", <<>>, 0, 0, FALSE, "")
StringValue(s) == CodeValue("string_value", s, 0, 0, FALSE, "")
DoubleValue(h) == CodeValue("double_value", <<>>, h, 0, FALSE, "")
IntValue(i) == CodeValue("int_value", <<>>, 0, i, FALSE, "")
BoolValue(b) == CodeValue("bool_value", <<>>, 0, 0, b, "")
StructName(n) == CodeValue("struct_name", <<>>, 0, 0, FALSE, n)

CodeReplacement(has, code) ==
  [has |-> has,
   new_code |-> IF has = "new_code" THEN code ELSE NoCodeValue,
   append_element |-> IF has = "append_element" THEN code ELSE NoCodeValue]

KeywordSegment(k) == [has |-> "keyword_argument", keyword_argument |-> k, list_index |-> 0]
IndexSegment(i) == [has |-> "list_index", keyword_argument |-> "", list_index |-> i]

-----------------------------------------------------------------------------
(* Value synthesis. *)

get_code_value(code) ==
  IF HasField(code, "string_value")
  THEN IF \E i \in 1..Len(code.string_value) : code.string_value[i] = "\n"
       THEN Return(SimpleString("\"\"\"" \o Join(code.string_value) \o "\"\"\""))
       ELSE Return(SimpleString("\"" \o Join(code.string_value) \o "\""))
  ELSE IF HasField(code, "double_value")
  THEN Return(Float(StrDouble(code.double_value)))
  ELSE IF HasField(code, "int_value")
  THEN Return(Integer(ToString(code.int_value)))
  ELSE IF HasField(code, "bool_value")
  THEN Return(Name(StrBool(code.bool_value)))
  ELSE IF HasField(code, "struct_name")
  THEN Return(Call(Attribute(Name("me"), Name(code.struct_name)), <<>>))
  ELSE Raise("Code value")

get_value(replacement) ==
  IF HasField(replacement, "new_code")
  THEN get_code_value(replacement.new_code)
  ELSE IF HasField(replacement, "delete_code")
  THEN Return(None)
  ELSE IF HasField(replacement, "append_element")
  THEN get_code_value(replacement.append_element)
  ELSE Raise("Unhandled replacement")

-----------------------------------------------------------------------------
(* UpdateCallsiteCodemod. *)

RECURSIVE _update_call(_, _, _, _)
RECURSIVE modify_arg(_, _, _)

\* element.with_changes(value=r) / input_arg.with_changes(value=r), r the outcome of a call.
with_value(node, r) ==
  IF r.raised THEN r ELSE Return([node EXCEPT !.value = r.value])

\* new_elements after appending the element kept and Element(value=v),
\* v the outcome of get_code_value.
appended(element, v) ==
  IF v.raised THEN v ELSE Return(<<element, Element(v.value)>>)

\* What one iteration of the loop over list_value.elements appends to new_elements,
\* with the new element put before the targeted one.
modify_element_insert_before(element, i, segments, replacement) ==
  IF i = segments[2].list_index
  THEN IF element.value.kind # "Call"
       THEN Raise("AssertionError")
       ELSE IF Len(segments) > 2
       THEN Singleton(with_value(element,
                                 _update_call(element.value, SubSeq(segments, 3, Len(segments)),
                                              None, replacement)))
       ELSE IF HasField(replacement, "delete_code")
       THEN Return(<<>>)
       ELSE IF HasField(replacement, "append_element")
       THEN IF get_code_value(replacement.append_element).raised
            THEN get_code_value(replacement.append_element)
            ELSE Return(<<Element(get_code_value(replacement.append_element).value), element>>)
       ELSE Raise("Unhandled replacement case")
  ELSE Return(<<element>>)

\* What one iteration of the loop over list_value.elements appends to new_elements;
\* i is the index from 0.
modify_element(element, i, segments, replacement) ==
  IF i = segments[2].list_index
  THEN IF element.value.kind # "Call"
       THEN Raise("AssertionError")
       ELSE IF Len(segments) > 2
       THEN Singleton(with_value(element,
                                 _update_call(element.value, SubSeq(segments, 3, Len(segments)),
                                              None, replacement)))
       ELSE IF HasField(replacement, "delete_code")
       THEN Return(<<>>)
       ELSE IF HasField(replacement, "append_element")
       THEN appended(element, get_code_value(replacement.append_element))
       ELSE Raise("Unhandled replacement case")
  ELSE Return(<<element>>)

\* The list branch of modify_arg: the elements of the rewritten list.
modify_elements(list_value, segments, replacement) ==
  Collect([i \in 1..Len(list_value.elements) |->
             modify_element(list_value.elements[i], i - 1, segments, replacement)])

\* input_arg with new_value as its value, or None when there is no new value;
\* new_value is the outcome of get_value.
replace_value(input_arg, new_value) ==
  IF new_value.raised THEN new_value
  ELSE IF new_value.value = None THEN Return(None)
  ELSE Return([input_arg EXCEPT !.value = new_value.value])

\* input_arg.with_changes(value=value.with_changes(elements=new_elements))
with_elements(input_arg, new_elements) ==
  IF new_elements.raised THEN new_elements
  ELSE Return([input_arg EXCEPT
                 !.value = [input_arg.value EXCEPT !.elements = new_elements.value]])

modify_arg(input_arg, segments, replacement) ==
  IF Len(segments) = 1
  THEN IF input_arg.value.kind # "Call"
       THEN replace_value(input_arg, get_value(replacement))
       ELSE IF /\ input_arg.keyword # None
               /\ input_arg.keyword.value = segments[1].keyword_argument
               /\ HasField(replacement, "delete_code")
       THEN Return(None)
       ELSE with_value(input_arg, _update_call(input_arg.value, segments, None, replacement))
  ELSE IF input_arg.value.kind = "Call"
       THEN with_value(input_arg,
                       _update_call(input_arg.value, Tail(segments), None, replacement))
       ELSE IF input_arg.value.kind = "List"
       THEN IF ~HasField(segments[2], "list_index")
            THEN Raise("Expected to have a list index at segments[1] of ")
            ELSE with_elements(input_arg,
                               modify_elements(input_arg.value, segments, replacement))
       ELSE Raise("unexpected input_arg")

\* The condition of the loop of _update_call, for the argument at index i (from 1).
arg_matches(call, i, keyword_argument, first_positional_arg) ==
  \/ /\ call.args[i].keyword.kind = "Name"
     /\ call.args[i].keyword.value = keyword_argument
  \/ /\ first_positional_arg # None
     /\ keyword_argument = first_positional_arg.value
     /\ i = 1

\* `if new_arg: new_args.append(new_arg)`, new_arg the outcome of modify_arg.
append_new_arg(new_arg) ==
  IF new_arg.raised THEN new_arg
  ELSE IF new_arg.value = None THEN Return(<<>>)
  ELSE Return(<<new_arg.value>>)

\* What one iteration of the loop of _update_call appends to new_args.
update_arg(call, i, segments, first_positional_arg, replacement) ==
  IF arg_matches(call, i, segments[1].keyword_argument, first_positional_arg)
  THEN append_new_arg(modify_arg(call.args[i], segments, replacement))
  ELSE Return(<<call.args[i]>>)

\* found_arg after the loop of _update_call.
found_arg(call, segments, first_positional_arg) ==
  \E i \in 1..Len(call.args) :
    arg_matches(call, i, segments[1].keyword_argument, first_positional_arg)

\* _update_call after its loop: new_args is the outcome of the loop and
\* new_value that of get_value.
finish_call(call, new_args, found, segment, new_value) ==
  IF new_args.raised THEN new_args
  ELSE IF new_value.raised THEN new_value
  ELSE IF ~found /\ new_value.value # None
  THEN IF segment.keyword_argument = ""
       THEN Raise("Did not receive keyword_argument")
       ELSE Return([call EXCEPT !.args =
                      Append(new_args.value,
                             Arg(Name(segment.keyword_argument), new_value.value))])
  ELSE Return([call EXCEPT !.args = new_args.value])

\* _update_call without the branch that adds an argument that was not found.
_update_call_no_new_argument(call, segments, first_positional_arg, replacement) ==
  finish_call(call,
              Collect([i \in 1..Len(call.args) |->
                         update_arg(call, i, segments, first_positional_arg, replacement)]),
              TRUE, segments[1], get_value(replacement))

_update_call(call, segments, first_positional_arg, replacement) ==
  finish_call(call,
              Collect([i \in 1..Len(call.args) |->
                         update_arg(call, i, segments, first_positional_arg, replacement)]),
              found_arg(call, segments, first_positional_arg),
              segments[1], get_value(replacement))

\* leave_Call without the test of the function name.
leave_Call_any_name(original_node, updated_node, position, inp) ==
  IF ~(/\ updated_node.func.kind = "Attribute"
       /\ position = inp.source_code_location.line)
  THEN Return(original_node)
  ELSE _update_call(updated_node, inp.arg_path.segments,
                    IF inp.component_name \in {"text", "markdown"} THEN Str("text") ELSE None,
                    inp.replacement)

\* leave_Call; position is the start line of original_node.
leave_Call(original_node, updated_node, position, inp) ==
  IF ~(/\ updated_node.func.kind = "Attribute"
       /\ updated_node.func.attr.value = inp.component_name
       /\ position = inp.source_code_location.line)
  THEN Return(original_node)
  ELSE _update_call(updated_node, inp.arg_path.segments,
                    IF inp.component_name \in {"text", "markdown"} THEN Str("text") ELSE None,
                    inp.replacement)

\* The transformer leaves a Call whose argument values were rewritten to args.
UpdateCallsite_visit_Call(node, args, position, inp) ==
  IF args.raised THEN args
  ELSE leave_Call(node,
                  [node EXCEPT !.args = [i \in 1..Len(node.args) |->
                                          [node.args[i] EXCEPT !.value = args.value[i]]]],
                  position, inp)

\* The transformer leaves a List whose element values were rewritten to elements.
UpdateCallsite_visit_List(node, elements) ==
  IF elements.raised THEN elements
  ELSE Return([node EXCEPT !.elements = [i \in 1..Len(node.elements) |->
                                          [node.elements[i] EXCEPT !.value = elements.value[i]]]])

\* The transformer's walk of an expression: children first, then leave_Call on
\* each Call with the node as parsed and the node with its children rewritten.
RECURSIVE UpdateCallsite_visit_expression(_, _, _)
UpdateCallsite_visit_expression(node, position, inp) ==
  IF node.kind = "Call"
  THEN UpdateCallsite_visit_Call(
         node,
         Gather([i \in 1..Len(node.args) |->
                   UpdateCallsite_visit_expression(node.args[i].value, position, inp)]),
         position, inp)
  ELSE IF node.kind = "List"
  THEN UpdateCallsite_visit_List(
         node,
         Gather([i \in 1..Len(node.elements) |->
                   UpdateCallsite_visit_expression(node.elements[i].value, position, inp)]))
  ELSE Return(node)

-----------------------------------------------------------------------------
(* Positions: the PositionProvider metadata of the parsed module. *)

RECURSIVE line_count(_)

\* The lines of the first n statements of a block.
RECURSIVE block_lines(_, _)
block_lines(body, n) ==
  IF n = 0 THEN 0 ELSE block_lines(body, n - 1) + line_count(body[n])

\* The lines of a statement: one, and for a with-statement those of its body too.
line_count(statement) ==
  IF statement.kind = "With"
  THEN 1 + block_lines(statement.body.body, Len(statement.body.body))
  ELSE 1

\* The start line of body[i] in a block whose first statement starts at line first.
start_line(body, i, first) == first + block_lines(body, i - 1)

RECURSIVE UpdateCallsite_visit_statement(_, _, _)

\* The walk of a block: each statement is replaced by the statements its visit returns.
UpdateCallsite_visit_body(body, first, inp) ==
  Collect([i \in 1..Len(body) |->
             UpdateCallsite_visit_statement(body[i], start_line(body, i, first), inp)])

\* A with-statement whose items were rewritten to items and whose body to body.
UpdateCallsite_visit_With(items, body) ==
  IF items.raised THEN items
  ELSE IF body.raised THEN body
  ELSE Return(<<With([i \in 1..Len(items.value) |-> WithItem(items.value[i])],
                     IndentedBlock(body.value))>>)

\* A small statement whose expression was rewritten to r.
UpdateCallsite_visit_Expr(r) ==
  IF r.raised THEN r ELSE Return(Expr(r.value))

\* A simple statement whose small statements were rewritten to body.
UpdateCallsite_visit_SimpleStatementLine(body) ==
  IF body.raised THEN body ELSE Return(<<SimpleStatementLine(body.value)>>)

\* UpdateCallsiteCodemod defines no leave_ for statements: each keeps its rewritten children.
UpdateCallsite_visit_statement(node, position, inp) ==
  IF node.kind = "With"
  THEN UpdateCallsite_visit_With(
         Gather([i \in 1..Len(node.items) |->
                   UpdateCallsite_visit_expression(node.items[i].item, position, inp)]),
         UpdateCallsite_visit_body(node.body.body, position + 1, inp))
  ELSE UpdateCallsite_visit_SimpleStatementLine(
         Gather([i \in 1..Len(node.body) |->
                   IF node.body[i].kind = "Expr"
                   THEN UpdateCallsite_visit_Expr(
                          UpdateCallsite_visit_expression(node.body[i].value, position, inp))
                   ELSE Return(node.body[i])]))

\* UpdateCallsiteCodemod(context, input).transform_module(tree)
UpdateCallsiteCodemod(tree, inp) == UpdateCallsite_visit_body(tree, 1, inp)

-----------------------------------------------------------------------------
(* DeleteComponentCodemod. *)

DeleteComponent_leave_SimpleStatementLine(original_node, updated_node, position, inp) ==
  IF position = inp.source_code_location.line
  THEN Return(<<SimpleStatementLine(<<>>)>>)
  ELSE Return(<<original_node>>)

RECURSIVE DeleteComponent_visit_statement(_, _, _)

DeleteComponent_visit_body(body, first, inp) ==
  Collect([i \in 1..Len(body) |->
             DeleteComponent_visit_statement(body[i], start_line(body, i, first), inp)])

\* DeleteComponentCodemod defines no leave_With: a with-statement keeps its rewritten body.
DeleteComponent_visit_With(node, body) ==
  IF body.raised THEN body
  ELSE Return(<<[node EXCEPT !.body = IndentedBlock(body.value)]>>)

DeleteComponent_visit_statement(node, position, inp) ==
  IF node.kind = "With"
  THEN DeleteComponent_visit_With(
         node, DeleteComponent_visit_body(node.body.body, position + 1, inp))
  ELSE DeleteComponent_leave_SimpleStatementLine(node, node, position, inp)

DeleteComponentCodemod(tree, inp) == DeleteComponent_visit_body(tree, 1, inp)

-----------------------------------------------------------------------------
(* NewComponentCodemod. *)

MODE_UNDEFINED == "MODE_UNDEFINED"
MODE_APPEND_SIBLING == "MODE_APPEND_SIBLING"
MODE_CHILD == "MODE_CHILD"

\* The test of leave_With on a body statement: a line holding exactly `pass`.
is_pass_line(statement) ==
  /\ statement.kind = "SimpleStatementLine"
  /\ Len(statement.body) = 1
  /\ statement.body[1].kind = "Pass"

\* updated_statement_lines of leave_With, from the statements of the rewritten body.
updated_statement_lines(body, component_name) ==
  Flatten([i \in 1..Len(body) |-> IF ~is_pass_line(body[i]) THEN <<body[i]>> ELSE <<>>])
    \o <<parse_statement(component_name)>>

leave_With(original_node, updated_node, position, inp) ==
  IF inp.mode # MODE_CHILD
  THEN Return(<<original_node>>)
  ELSE IF position # inp.source_code_location.line
  THEN Return(<<original_node>>)
  ELSE Return(<<[updated_node EXCEPT
                   !.body = [updated_node.body EXCEPT
                               !.body = updated_statement_lines(updated_node.body.body,
                                                                inp.component_name)]]>>)

\* leave_SimpleStatementLine that leaves the statement alone in MODE_CHILD.
NewComponent_leave_SimpleStatementLine_no_wrap(original_node, updated_node, position, inp) ==
  IF position # inp.source_code_location.line
  THEN Return(<<original_node>>)
  ELSE IF inp.mode = MODE_APPEND_SIBLING
  THEN Return(<<updated_node, parse_statement(inp.component_name)>>)
  ELSE IF inp.mode = MODE_CHILD
  THEN Return(<<original_node>>)
  ELSE Raise("Unsupported EditorNewComponent.Mode")

NewComponent_leave_SimpleStatementLine(original_node, updated_node, position, inp) ==
  IF position # inp.source_code_location.line
  THEN Return(<<original_node>>)
  ELSE IF inp.mode = MODE_APPEND_SIBLING
  THEN Return(<<updated_node, parse_statement(inp.component_name)>>)
  ELSE IF inp.mode = MODE_CHILD
  THEN IF Len(original_node.body) # 1
       THEN Raise("AssertionError")
       ELSE IF original_node.body[1].kind # "Expr"
       THEN Raise("AssertionError")
       ELSE Return(<<With(<<WithItem(original_node.body[1].value)>>,
                          IndentedBlock(<<parse_statement(inp.component_name)>>))>>)
  ELSE Raise("Unsupported EditorNewComponent.Mode")

RECURSIVE NewComponent_visit_statement(_, _, _)

NewComponent_visit_body(body, first, inp) ==
  Collect([i \in 1..Len(body) |->
             NewComponent_visit_statement(body[i], start_line(body, i, first), inp)])

\* The transformer leaves a with-statement whose body was rewritten to body.
NewComponent_visit_With(node, body, position, inp) ==
  IF body.raised THEN body
  ELSE leave_With(node, [node EXCEPT !.body = IndentedBlock(body.value)], position, inp)

\* The walk of a statement: the body of a with-statement first, then leave_With
\* with the statement as parsed and the statement with its body rewritten.
NewComponent_visit_statement(node, position, inp) ==
  IF node.kind = "With"
  THEN NewComponent_visit_With(
         node, NewComponent_visit_body(node.body.body, position + 1, inp), position, inp)
  ELSE NewComponent_leave_SimpleStatementLine(node, node, position, inp)

NewComponentCodemod(tree, inp) == NewComponent_visit_body(tree, 1, inp)

-----------------------------------------------------------------------------
(* Requests (mesop.protos.ui_pb2). *)

SourceCodeLocation(line) == [line |-> line]

EditorNewComponent(mode, line, component_name) ==
  [mode |-> mode, source_code_location |-> SourceCodeLocation(line),
   component_name |-> component_name]

EditorDeleteComponent(line) == [source_code_location |-> SourceCodeLocation(line)]

EditorUpdateCallsite(line, component_name, segments, replacement) ==
  [source_code_location |-> SourceCodeLocation(line), component_name |-> component_name,
   arg_path |-> [segments |-> segments], replacement |-> replacement]

Lines == 0..MaxLine
Modes == {MODE_UNDEFINED, MODE_APPEND_SIBLING, MODE_CHILD}
ComponentNames == {"text", "box"}
Keywords == {"text", "options"}

CodeValues ==
  {StringValue(<<"b", "y", "e">>), DoubleValue(3), IntValue(7), BoolValue(TRUE),
   StructName("option")}

Replacements ==
  {CodeReplacement("new_code", v) : v \in CodeValues}
    \cup {CodeReplacement("append_element", v) : v \in CodeValues}
    \cup {CodeReplacement("delete_code", NoCodeValue), CodeReplacement("", NoCodeValue)}

Segments ==
  {KeywordSegment(k) : k \in Keywords} \cup {IndexSegment(i) : i \in 0..MaxIndex}

Paths == UNION {[1..n -> Segments] : n \in 1..MaxPathLen}

-----------------------------------------------------------------------------
(* Parsed modules the codemods are applied to. *)

me(name, args) == Call(Attribute(Name("me"), Name(name)), args)
hi == SimpleString("\"hi\"")
kw(k, value) == Arg(Name(k), value)
pos(value) == Arg(None, value)
Line(call) == SimpleStatementLine(<<Expr(call)>>)
PassLine == SimpleStatementLine(<<Pass>>)
WithBlock(call, body) == With(<<WithItem(call)>>, IndentedBlock(body))

\* me.text("hi")
text_pos == me("text", <<pos(hi)>>)
\* me.text(text="hi")
text_kw == me("text", <<kw("text", hi)>>)
\* me.text(options="hi", text="hi")
text_kw_second == me("text", <<kw("options", hi), kw("text", hi)>>)
\* me.text(options=[me.option()], text=[me.option(), me.option()])
text_lists ==
  me("text", <<kw("options", List(<<Element(me("option", <<>>))>>)),
               kw("text", List(<<Element(me("option", <<>>)), Element(me("option", <<>>))>>))>>)
\* me.text(text=me.text(text="hi"))
text_in_text == me("text", <<kw("text", text_kw)>>)
\* text(text="hi")
bare_text == Call(Name("text"), <<kw("text", hi)>>)
\* me.box()
box_empty == me("box", <<>>)
\* me.box(options=me.text(text="hi"))
box_nested == me("box", <<kw("options", text_kw)>>)
\* me.box(options=[me.option(), me.option(text="hi")])
box_list ==
  me("box", <<kw("options", List(<<Element(me("option", <<>>)),
                                    Element(me("option", <<kw("text", hi)>>))>>))>>)
\* me.box(options=["hi", me.option()])
box_list_literal ==
  me("box", <<kw("options", List(<<Element(hi), Element(me("option", <<>>))>>))>>)

SampleCalls ==
  {text_pos, text_kw, text_kw_second, text_lists, text_in_text, bare_text,
   box_empty, box_nested, box_list, box_list_literal}

Programs ==
  {<<Line(c)>> : c \in SampleCalls}
    \cup {<<SimpleStatementLine(<<Expr(text_kw), Expr(text_pos)>>)>>,
          <<PassLine, Line(text_kw)>>,
          <<Line(text_pos), Line(box_list)>>,
          <<WithBlock(box_empty, <<PassLine>>)>>,
          <<WithBlock(box_empty, <<Line(text_kw), PassLine>>)>>,
          <<WithBlock(text_kw, <<Line(text_kw)>>)>>,
          <<WithBlock(box_empty, <<WithBlock(box_list, <<PassLine>>)>>), Line(text_pos)>>}

-----------------------------------------------------------------------------
(* The editor applies one codemod to the parsed module. *)

Init ==
  /\ module \in Programs
  /\ command = "none"
  /\ input = None
  /\ result = None
  /\ history = <<>>

NewComponent ==
  /\ command = "none"
  /\ \E mode \in Modes, line \in Lines, name \in ComponentNames :
       /\ input' = EditorNewComponent(mode, line, name)
       /\ result' = NewComponentCodemod(module, input')
  /\ command' = "NewComponentCodemod"
  /\ UNCHANGED <<module, history>>

DeleteComponent ==
  /\ command = "none"
  /\ \E line \in Lines :
       /\ input' = EditorDeleteComponent(line)
       /\ result' = DeleteComponentCodemod(module, input')
  /\ command' = "DeleteComponentCodemod"
  /\ UNCHANGED <<module, history>>

UpdateCallsite ==
  /\ command = "none"
  /\ \E line \in Lines, name \in ComponentNames, path \in Paths, replacement \in Replacements :
       /\ input' = EditorUpdateCallsite(line, name, path, replacement)
       /\ result' = UpdateCallsiteCodemod(module, input')
  /\ command' = "UpdateCallsiteCodemod"
  /\ UNCHANGED <<module, history>>

Next == NewComponent \/ DeleteComponent \/ UpdateCallsite

Spec == Init /\ [][Next]_vars

-----------------------------------------------------------------------------
(* A session of two list edits of one call site: the editor applies an      *)
(* UpdateCallsite whose path is [keyword, list_index], writes the result    *)
(* out, parses it again and applies a second one to the same line and       *)
(* component.                                                               *)

\* The line and component of a list edit: free at first, then those of the
\* edit before.
SiteLines == IF history = <<>> THEN Lines ELSE {history[1].input.source_code_location.line}
SiteNames == IF history = <<>> THEN ComponentNames ELSE {history[1].input.component_name}

ListPaths == {<<KeywordSegment(k), IndexSegment(i)>> : k \in Keywords, i \in 0..(MaxIndex + 1)}

AppendElement ==
  /\ command = "none"
  /\ \E line \in SiteLines, name \in SiteNames, path \in ListPaths, v \in CodeValues :
       /\ input' = EditorUpdateCallsite(line, name, path, CodeReplacement("append_element", v))
       /\ result' = UpdateCallsiteCodemod(module, input')
  /\ command' = "UpdateCallsiteCodemod"
  /\ UNCHANGED <<module, history>>

DeleteElement ==
  /\ command = "none"
  /\ \E line \in SiteLines, name \in SiteNames, path \in ListPaths :
       /\ input' = EditorUpdateCallsite(line, name, path,
                                        CodeReplacement("delete_code", NoCodeValue))
       /\ result' = UpdateCallsiteCodemod(module, input')
  /\ command' = "UpdateCallsiteCodemod"
  /\ UNCHANGED <<module, history>>

\* The rewritten module becomes the parsed module of the next edit.
Reparse ==
  /\ command # "none"
  /\ ~result.raised
  /\ history = <<>>
  /\ history' = <<[module |-> module, input |-> input]>>
  /\ module' = result.value
  /\ command' = "none"
  /\ input' = None
  /\ result' = None

NextListEdits == AppendElement \/ DeleteElement \/ Reparse

SpecListEdits == Init /\ [][NextListEdits]_vars

-----------------------------------------------------------------------------
(* Vocabulary of the properties. *)

TargetLine == input.source_code_location.line

\* The statements of a block (nested ones included) that start at line.
RECURSIVE statements_at(_, _, _)
statements_at(body, first, line) ==
  Flatten([i \in 1..Len(body) |->
             IF start_line(body, i, first) = line THEN <<body[i]>>
             ELSE IF body[i].kind = "With"
             THEN statements_at(body[i].body.body, start_line(body, i, first) + 1, line)
             ELSE <<>>])

\* The expressions a statement holds on its own start line.
expressions_of(statement) ==
  IF statement.kind = "With"
  THEN [i \in 1..Len(statement.items) |-> statement.items[i].item]
  ELSE Flatten([i \in 1..Len(statement.body) |->
                  IF statement.body[i].kind = "Expr" THEN <<statement.body[i].value>>
                  ELSE <<>>])

\* The attribute names of the calls in an expression.
RECURSIVE call_names(_)
call_names(node) ==
  IF node.kind = "Call"
  THEN (IF node.func.kind = "Attribute" THEN {node.func.attr.value} ELSE {})
         \cup UNION {call_names(node.args[i].value) : i \in 1..Len(node.args)}
  ELSE IF node.kind = "List"
  THEN UNION {call_names(node.elements[i].value) : i \in 1..Len(node.elements)}
  ELSE {}

\* The attribute names of the calls that start at line.
call_names_at(tree, line) ==
  LET found == statements_at(tree, 1, line) IN
  UNION {UNION {call_names(expressions_of(found[i])[j]) :
                  j \in 1..Len(expressions_of(found[i]))} : i \in 1..Len(found)}

NoStatementAt(line) == statements_at(module, 1, line) = <<>>
SimpleStatementAt(line) ==
  \E i \in 1..Len(statements_at(module, 1, line)) :
     statements_at(module, 1, line)[i].kind = "SimpleStatementLine"
WithAt(line) ==
  \E i \in 1..Len(statements_at(module, 1, line)) :
     statements_at(module, 1, line)[i].kind = "With"

\* The statement that takes the place of `statement` under edit `how`.
replacement_of(statement, how, component_name) ==
  IF how = "empty" THEN SimpleStatementLine(<<>>)
  ELSE [statement EXCEPT !.body.body =
          SelectSeq(@, LAMBDA st : ~is_pass_line(st)) \o <<parse_statement(component_name)>>]

\* A block with the statement that starts at line replaced (see replacement_of),
\* every other statement kept in its position.
RECURSIVE replace_at(_, _, _, _, _)
replace_at(body, first, line, how, component_name) ==
  [i \in 1..Len(body) |->
     IF start_line(body, i, first) = line
     THEN replacement_of(body[i], how, component_name)
     ELSE IF body[i].kind = "With"
     THEN [body[i] EXCEPT !.body.body =
             replace_at(@, start_line(body, i, first) + 1, line, how, component_name)]
     ELSE body[i]]

-----------------------------------------------------------------------------
(* C1: no statement and no call starts at the target line (or, for an       *)
(* update, no call of the requested name does): every codemod returns the   *)
(* tree as it was and raises nothing.                                       *)

C1_NoMatchReturnsTree ==
  command # "none"
    => \/ result = Return(module)
       \/ ~(\/ NoStatementAt(TargetLine)
            \/ /\ command = "UpdateCallsiteCodemod"
               /\ input.component_name \notin call_names_at(module, TargetLine))

\* An update names a line where a call starts, under another attribute name.
C1_Witness ==
  /\ command = "UpdateCallsiteCodemod"
  /\ call_names_at(module, TargetLine) # {}
  /\ input.component_name \notin call_names_at(module, TargetLine)
  /\ result = Return(module)

-----------------------------------------------------------------------------
(* C2: DeleteComponent replaces the statement that starts at the target     *)
(* line, simple or compound, by an empty statement and keeps every other    *)
(* statement unchanged in its position.                                     *)

C2_DeleteReplacesAnyStatement ==
  command = "DeleteComponentCodemod"
    => result = Return(replace_at(module, 1, TargetLine, "empty", ""))

-----------------------------------------------------------------------------
(* C3: InsertComponent in CHILD mode on a with-statement at the target      *)
(* line: its body becomes the statements that are not a lone pass, in       *)
(* order, then the new call; everything else is unchanged.                  *)

C3_ChildAppendsToWithBody ==
  (command = "NewComponentCodemod" /\ input.mode = MODE_CHILD /\ WithAt(TargetLine))
    => result = Return(replace_at(module, 1, TargetLine, "child", input.component_name))

-----------------------------------------------------------------------------
(* C9: InsertComponent in CHILD mode with no with-statement at the target   *)
(* line.  As claimed: the tree is returned unchanged, a simple statement at *)
(* the target line included.                                                *)

C9_ChildWithoutWithIsNoOp ==
  (command = "NewComponentCodemod" /\ input.mode = MODE_CHILD /\ ~WithAt(TargetLine))
    => result = Return(module)

\* Whether the simple statement holds exactly one expression.
is_expression_line(statement) ==
  Len(statement.body) = 1 /\ statement.body[1].kind = "Expr"

\* The with-statement leave_SimpleStatementLine builds around an expression line.
wrapped(statement, component_name) ==
  With(<<WithItem(statement.body[1].value)>>,
       IndentedBlock(<<parse_statement(component_name)>>))

\* C9 as amended: with no statement at the target line the tree is unchanged;
\* a one-expression statement of the module's top level at the target line is
\* replaced by `with <expression>:` holding the new call; nested in a
\* with-block, the tree is unchanged; a statement that is not one expression
\* raises.
C9_ChildWrapsSimpleStatement ==
  (command = "NewComponentCodemod" /\ input.mode = MODE_CHILD /\ ~WithAt(TargetLine))
    => /\ NoStatementAt(TargetLine) => result = Return(module)
       /\ \A i \in 1..Len(module) :
            (start_line(module, i, 1) = TargetLine)
              => IF is_expression_line(module[i])
                 THEN result = Return([module EXCEPT
                                         ![i] = wrapped(module[i], input.component_name)])
                 ELSE result.raised
       /\ (SimpleStatementAt(TargetLine)
             /\ \A i \in 1..Len(module) : start_line(module, i, 1) # TargetLine)
            => IF is_expression_line(statements_at(module, 1, TargetLine)[1])
               THEN result = Return(module)
               ELSE result.raised

\* A top-level expression statement at the target line has been wrapped.
C9_Witness ==
  /\ command = "NewComponentCodemod"
  /\ input.mode = MODE_CHILD
  /\ \E i \in 1..Len(module) :
       /\ start_line(module, i, 1) = TargetLine
       /\ module[i].kind = "SimpleStatementLine"
       /\ ~result.raised
       /\ result.value[i].kind = "With"

-----------------------------------------------------------------------------
(* Vocabulary of the UpdateCallsite properties. *)

\* The calls that are an expression statement or a with-item, in source order,
\* each with the line it starts on.
RECURSIVE statement_calls(_, _)
statement_calls(body, first) ==
  Flatten([i \in 1..Len(body) |->
             LET line == start_line(body, i, first)
                 own == SelectSeq(expressions_of(body[i]), LAMBDA e : e.kind = "Call")
             IN [j \in 1..Len(own) |-> [line |-> line, call |-> own[j]]]
                  \o (IF body[i].kind = "With"
                      THEN statement_calls(body[i].body.body, line + 1)
                      ELSE <<>>)])

Calls == statement_calls(module, 1)
NewCalls == statement_calls(result.value, 1)

\* The statement calls the request names: attribute name and start line.
matched_in(calls) ==
  {n \in 1..Len(calls) :
     /\ calls[n].line = TargetLine
     /\ calls[n].call.func.kind = "Attribute"
     /\ calls[n].call.func.attr.value = input.component_name}

Matched == matched_in(Calls)

Segs == input.arg_path.segments
IsUpdate == command = "UpdateCallsiteCodemod"
FirstPositional == IF input.component_name \in {"text", "markdown"} THEN "text" ELSE ""

has_keyword(arg, k) == arg.keyword.kind = "Name" /\ arg.keyword.value = k

\* The argument a keyword segment k selects: keyword k, or the first argument
\* when it is positional and k is the component's first-positional name.
selects(call, i, k, first_positional) ==
  \/ has_keyword(call.args[i], k)
  \/ i = 1 /\ call.args[i].keyword = None /\ k # "" /\ k = first_positional

-----------------------------------------------------------------------------
(* C4: a one-segment path [k] on a matched call that has an argument k:     *)
(* new_code sets that argument's value to the synthesized value and         *)
(* delete_code removes the argument, whatever the old value is (literal,    *)
(* list or call).                                                           *)

C4_OneSegmentAppliesDirectly ==
  (/\ IsUpdate
   /\ Len(Segs) = 1
   /\ HasField(Segs[1], "keyword_argument")
   /\ input.replacement.has \in {"new_code", "delete_code"})
    => \A n \in Matched :
         LET call == Calls[n].call
             k == Segs[1].keyword_argument
             with_k(args) == SelectSeq(args, LAMBDA a : has_keyword(a, k))
         IN with_k(call.args) # <<>>
              => /\ ~result.raised
                 /\ with_k(NewCalls[n].call.args) =
                      IF HasField(input.replacement, "delete_code")
                      THEN <<>>
                      ELSE [i \in 1..Len(with_k(call.args)) |->
                              [with_k(call.args)[i] EXCEPT
                                 !.value = get_code_value(input.replacement.new_code).value]]

-----------------------------------------------------------------------------
(* C5: a path [k, list_index i, ...] where argument k of a matched call is  *)
(* a list with no element i raises, for every replacement kind.             *)

C5_IndexOutOfRangeRaises ==
  (/\ IsUpdate
   /\ Len(Segs) >= 2
   /\ HasField(Segs[1], "keyword_argument")
   /\ HasField(Segs[2], "list_index")
   /\ \E n \in Matched : \E i \in 1..Len(Calls[n].call.args) :
        /\ has_keyword(Calls[n].call.args[i], Segs[1].keyword_argument)
        /\ Calls[n].call.args[i].value.kind = "List"
        /\ Segs[2].list_index >= Len(Calls[n].call.args[i].value.elements))
    => result.raised

-----------------------------------------------------------------------------
(* C10: with a first segment keyword k, only an argument with keyword k, or *)
(* a positional first argument when k is the first-positional name, is      *)
(* modified: an argument with another keyword is never modified or removed. *)
(* Stated of the matched calls that hold no call of the requested name in   *)
(* their own arguments.                                                     *)

holds_requested_call(call) ==
  \E i \in 1..Len(call.args) : input.component_name \in call_names(call.args[i].value)

C10_OtherKeywordsUntouched ==
  (IsUpdate /\ HasField(Segs[1], "keyword_argument") /\ ~result.raised)
    => \A n \in Matched :
         LET k == Segs[1].keyword_argument
             other(a) == a.keyword.kind = "Name" /\ a.keyword.value # k
         IN ~holds_requested_call(Calls[n].call)
              => SelectSeq(NewCalls[n].call.args, other) = SelectSeq(Calls[n].call.args, other)

-----------------------------------------------------------------------------
(* C8: an UpdateCallsite rewrites at most one call: of several calls of the *)
(* requested name on the target line only the first is rewritten.           *)

Rewritten == {n \in 1..Len(Calls) : NewCalls[n].call # Calls[n].call}

-----------------------------------------------------------------------------
(* C6: a path that cannot be resolved against the structure of a matched    *)
(* call raises, for every replacement kind.                                 *)

\* The ways the path fails to resolve from a call on: "index_for_keyword" (a
\* list_index segment where a keyword argument is expected),
\* "keyword_for_index" (a keyword segment where a list index is expected) and
\* "beyond_literal" (segments left on reaching a literal value).  A path that
\* stops at an absent argument or at an index out of range has none of them.
RECURSIVE path_faults(_, _, _)
path_faults(call, segments, first_positional) ==
  IF HasField(segments[1], "list_index")
  THEN {"index_for_keyword"}
  ELSE LET rest == Tail(segments)
           Below(value) ==
             IF rest = <<>> THEN {}
             ELSE IF value.kind = "Call" THEN path_faults(value, rest, "")
             ELSE IF value.kind = "List"
             THEN IF HasField(rest[1], "keyword_argument") THEN {"keyword_for_index"}
                  ELSE IF rest[1].list_index >= Len(value.elements) THEN {}
                  ELSE LET element == value.elements[rest[1].list_index + 1].value IN
                       IF Tail(rest) = <<>> THEN {}
                       ELSE IF element.kind = "Call"
                       THEN path_faults(element, Tail(rest), "")
                       ELSE {"beyond_literal"}
             ELSE {"beyond_literal"}
       IN UNION {Below(call.args[i].value) :
                   i \in {j \in 1..Len(call.args) :
                            selects(call, j, segments[1].keyword_argument, first_positional)}}

Faults ==
  LET calls == Calls
  IN UNION {path_faults(calls[n].call, Segs, FirstPositional) : n \in matched_in(calls)}

-----------------------------------------------------------------------------
(* C7: round trip of list edits, checked under SpecListEdits.               *)

\* The number of calls of attribute name `name` in an expression.
RECURSIVE count_calls(_, _)
count_calls(node, name) ==
  LET RECURSIVE Sum(_, _)
      Sum(f, n) == IF n = 0 THEN 0 ELSE f[n] + Sum(f, n - 1)
  IN IF node.kind = "Call"
     THEN (IF node.func.kind = "Attribute" /\ node.func.attr.value = name THEN 1 ELSE 0)
            + Sum([i \in 1..Len(node.args) |-> count_calls(node.args[i].value, name)],
                  Len(node.args))
     ELSE IF node.kind = "List"
     THEN Sum([i \in 1..Len(node.elements) |-> count_calls(node.elements[i].value, name)],
              Len(node.elements))
     ELSE 0

\* The edit before this one, and the module it was applied to.
First == history[1].input
Original == history[1].module
OriginalCalls == statement_calls(Original, 1)

\* The second edit deletes, at index i + 1 of the same argument of the same
\* call site, what the first appended at index i.
IsRoundTrip ==
  /\ history # <<>>
  /\ IsUpdate
  /\ HasField(First.replacement, "append_element")
  /\ HasField(input.replacement, "delete_code")
  /\ Segs[1] = First.arg_path.segments[1]
  /\ Segs[2].list_index = First.arg_path.segments[2].list_index + 1

\* The statement calls of the original module the first edit matched whose
\* argument k is a list with an element at the index of the first edit.
ListTargets ==
  {n \in 1..Len(OriginalCalls) :
     /\ OriginalCalls[n].line = First.source_code_location.line
     /\ OriginalCalls[n].call.func.kind = "Attribute"
     /\ OriginalCalls[n].call.func.attr.value = First.component_name
     /\ \E i \in 1..Len(OriginalCalls[n].call.args) :
          /\ has_keyword(OriginalCalls[n].call.args[i], First.arg_path.segments[1].keyword_argument)
          /\ OriginalCalls[n].call.args[i].value.kind = "List"
          /\ First.arg_path.segments[2].list_index
               < Len(OriginalCalls[n].call.args[i].value.elements)}

OneCallMatched ==
  LET found == statements_at(Original, 1, First.source_code_location.line)
      RECURSIVE Sum(_, _)
      Sum(f, n) == IF n = 0 THEN 0 ELSE f[n] + Sum(f, n - 1)
      exprs == IF found = <<>> THEN <<>> ELSE expressions_of(found[1])
  IN Sum([j \in 1..Len(exprs) |-> count_calls(exprs[j], First.component_name)],
         Len(exprs)) = 1

====
